---- MODULE Spec2Model ----
(***************************************************************************)
(* The request handlers of main.py over the tables of models/models.py.    *)
(*                                                                         *)
(* A table is a function from the primary keys present to rows.  A cell    *)
(* holds None (SQL NULL, Python None) or Some(v).  A request body is a     *)
(* record over the keys of its pydantic model; None stands for a key the   *)
(* client left out or sent as null.  Every handler runs one statement and  *)
(* commits, so one handler is one action; delete_artist is also given in   *)
(* steps, to let two requests interleave.                                  *)
(***************************************************************************)
EXTENDS Integers, Sequences, FiniteSets, TLC

\* ------------------------------------------------------------------ bounds
\* Primary keys each serial sequence hands out.
MaxId == 2
\* Largest limit / offset a client sends to a list endpoint.
MaxPage == 1

\* --------------------------------------------------------------- constants
DefaultLimit == 10
DefaultOffset == 0
StatusOK == 200
StatusNotFound == 404
StatusUnprocessable == 422
StatusServerError == 500

\* ----------------------------------------------------------------- values
None == <<>>
Some(v) == <<v>>
Opt(S) == {None} \cup {Some(v) : v \in S}

\* Ids a client may name: every key a sequence can hand out, and one more.
Ids == 1..(MaxId + 1)

Kinds == {"roles", "users", "artists", "albums", "songs"}

VARIABLES
    roles,      \* table roles
    users,      \* table users
    artists,    \* table artists
    albums,     \* table albums
    songs,      \* table songs
    serial,     \* next value of each table's id sequence
    req,        \* the request served by the last step
    resp,       \* its response
    sess        \* delete_artist requests in flight, one per worker

vars == <<roles, users, artists, albums, songs, serial, req, resp, sess>>
tables == <<roles, users, artists, albums, songs>>

\* ------------------------------------------------------------- the store
\* INSERT ... RETURNING: the row gets the sequence's next value as its id.
InsertRow(table, id, vals) == table @@ (id :> ([id |-> id] @@ vals))

\* UPDATE ... SET vals: the columns named in vals are overwritten.
UpdateRow(row, vals) ==
    [c \in DOMAIN row |-> IF c \in DOMAIN vals THEN vals[c] ELSE row[c]]

\* DELETE ... WHERE id = ...
DeleteRow(table, id) == [k \in DOMAIN table \ {id} |-> table[k]]

\* RETURNING / response_model: the columns sent back.
Project(row, cols) == [c \in cols |-> row[c]]

\* {k: v for k, v in body.dict().items() if v is not None}
NonNull(body) == [k \in {k \in DOMAIN body : body[k] # None} |-> body[k]]

\* An UPDATE whose SET list is empty is no statement: executing it raises.
EmptySetClause(vals) == DOMAIN vals = {}

\* A foreign key column holds NULL or the key of a row of the target table.
FkHolds(cell, target) == cell = None \/ cell[1] \in DOMAIN target

\* The sequences of the rows of a table, each row once: a SELECT without
\* ORDER BY returns the rows in an order the store does not specify.
ScanOrders(table) ==
    LET n == Cardinality(DOMAIN table) IN
    { [i \in 1..n |-> table[f[i]]] :
        f \in {g \in [1..n -> DOMAIN table] : \A i, j \in 1..n : i # j => g[i] # g[j]} }

\* LIMIT limit OFFSET offset over a scan.
Page(scan, limit, offset) ==
    LET last == IF offset + limit < Len(scan) THEN offset + limit ELSE Len(scan) IN
    IF offset >= Len(scan) THEN <<>> ELSE SubSeq(scan, offset + 1, last)

NextSerial(kind) == [serial EXCEPT ![kind] = @ + 1]

Reply(op, id, body, status, out) ==
    /\ req' = [op |-> op, id |-> id, body |-> body]
    /\ resp' = [status |-> status, body |-> out]

Detail(text) == [detail |-> text]

\* ------------------------------------------------------------------ roles
RoleCols == {"id", "name", "permissions"}

\* class RoleCreate: name is required, permissions defaults to {}.
RoleCreateValid(body) == body.name # None
RoleCreateModel(body) ==
    [name |-> body.name,
     permissions |-> IF body.permissions = None THEN Some("{}") ELSE body.permissions]

create_role(body) ==
    /\ serial.roles <= MaxId
    /\ IF ~RoleCreateValid(body)
       THEN /\ Reply("create_role", 0, body, StatusUnprocessable, Detail("validation"))
            /\ UNCHANGED <<tables, serial, sess>>
       ELSE LET role == RoleCreateModel(body)
                id == serial.roles
            IN  /\ roles' = InsertRow(roles, id,
                                [name |-> role.name, permissions |-> role.permissions])
                /\ serial' = NextSerial("roles")
                /\ Reply("create_role", 0, body, StatusOK, Project(roles'[id], RoleCols))
                /\ UNCHANGED <<users, artists, albums, songs, sess>>

get_roles ==
    /\ \E scan \in ScanOrders(roles) : Reply("get_roles", 0, None, StatusOK, scan)
    /\ UNCHANGED <<tables, serial, sess>>

get_role(role_id) ==
    /\ IF role_id \in DOMAIN roles
       THEN Reply("get_role", role_id, None, StatusOK, roles[role_id])
       ELSE Reply("get_role", role_id, None, StatusNotFound, Detail("Role not found"))
    /\ UNCHANGED <<tables, serial, sess>>

\* The columns update_role writes: the body is parsed as a RoleCreate.
UpdateRoleValues(body) ==
    LET role == RoleCreateModel(body) IN
    [name |-> role.name, permissions |-> role.permissions]

update_role(role_id, body) ==
    IF ~RoleCreateValid(body)
    THEN /\ Reply("update_role", role_id, body, StatusUnprocessable, Detail("validation"))
         /\ UNCHANGED <<tables, serial, sess>>
    ELSE IF role_id \in DOMAIN roles
    THEN /\ roles' = [roles EXCEPT ![role_id] = UpdateRow(@, UpdateRoleValues(body))]
         /\ Reply("update_role", role_id, body, StatusOK, Project(roles'[role_id], RoleCols))
         /\ UNCHANGED <<users, artists, albums, songs, serial, sess>>
    ELSE /\ Reply("update_role", role_id, body, StatusNotFound, Detail("Role not found"))
         /\ UNCHANGED <<tables, serial, sess>>

\* ------------------------------------------------------------------ users
\* class User (response_model): hashed_password is not among its fields.
UserCols == {"id", "email", "username", "role_id", "registered_at",
             "is_active", "is_superuser", "is_verified"}

\* class UserCreate of main.py: keys of the body it does not declare
\* (password among them) are dropped; the three flags have defaults.
UserCreateValid(body) ==
    /\ body.email # None /\ body.username # None
    /\ body.role_id # None /\ body.hashed_password # None
UserCreateModel(body) ==
    [email |-> body.email, username |-> body.username, role_id |-> body.role_id,
     hashed_password |-> body.hashed_password,
     is_active |-> IF body.is_active = None THEN Some(TRUE) ELSE body.is_active,
     is_superuser |-> IF body.is_superuser = None THEN Some(FALSE) ELSE body.is_superuser,
     is_verified |-> IF body.is_verified = None THEN Some(FALSE) ELSE body.is_verified]

\* hashpw(password, gensalt()): a string no client sends as a password.
Hash(password) == "$2b$" \o password

create_user(body, now) ==
    /\ serial.users <= MaxId
    /\ IF ~UserCreateValid(body)
       THEN /\ Reply("create_user", 0, body, StatusUnprocessable, Detail("validation"))
            /\ UNCHANGED <<tables, serial, sess>>
       ELSE LET user == UserCreateModel(body)
                id == serial.users
            IN
            IF "password" \notin DOMAIN user
            THEN \* user.password: the model has no such attribute
                 /\ Reply("create_user", 0, body, StatusServerError, Detail("AttributeError"))
                 /\ UNCHANGED <<tables, serial, sess>>
            ELSE IF ~FkHolds(user.role_id, roles)
            THEN /\ serial' = NextSerial("users")
                 /\ Reply("create_user", 0, body, StatusServerError, Detail("IntegrityError"))
                 /\ UNCHANGED <<tables, sess>>
            ELSE /\ users' = InsertRow(users, id,
                                [email |-> user.email, username |-> user.username,
                                 registered_at |-> Some(now), role_id |-> user.role_id,
                                 hashed_password |-> Some(Hash(user.password[1])),
                                 is_active |-> user.is_active,
                                 is_superuser |-> user.is_superuser,
                                 is_verified |-> user.is_verified])
                 /\ serial' = NextSerial("users")
                 /\ Reply("create_user", 0, body, StatusOK, Project(users'[id], UserCols))
                 /\ UNCHANGED <<roles, artists, albums, songs, sess>>

\* POST /auth/register, the registration router included at lines 40-44.
register(body, now) ==
    /\ serial.users <= MaxId
    /\ LET id == serial.users
           taken == \E k \in DOMAIN users :
                        users[k].email = body.email \/ users[k].username = body.username
       IN
       IF taken \/ ~FkHolds(body.role_id, roles)
       THEN /\ Reply("register", 0, body, 400, Detail("REGISTER_FAILED"))
            /\ UNCHANGED <<tables, serial, sess>>
       ELSE /\ users' = InsertRow(users, id,
                            [email |-> body.email, username |-> body.username,
                             registered_at |-> Some(now), role_id |-> body.role_id,
                             hashed_password |-> Some(Hash(body.password[1])),
                             is_active |-> Some(TRUE), is_superuser |-> Some(FALSE),
                             is_verified |-> Some(FALSE)])
            /\ serial' = NextSerial("users")
            /\ Reply("register", 0, body, StatusOK, Project(users'[id], UserCols))
            /\ UNCHANGED <<roles, artists, albums, songs, sess>>

\* limit: int = 10, offset: int = 0
PageArg(arg, default) == IF arg = None THEN default ELSE arg[1]

get_users(limit, offset) ==
    /\ \E scan \in ScanOrders(users) :
          Reply("get_users", 0, [limit |-> limit, offset |-> offset], StatusOK,
                Page([i \in 1..Len(scan) |-> Project(scan[i], UserCols)],
                     PageArg(limit, DefaultLimit), PageArg(offset, DefaultOffset)))
    /\ UNCHANGED <<tables, serial, sess>>

get_user(user_id) ==
    /\ IF user_id \in DOMAIN users
       THEN Reply("get_user", user_id, None, StatusOK, Project(users[user_id], UserCols))
       ELSE Reply("get_user", user_id, None, StatusNotFound, Detail("User not found"))
    /\ UNCHANGED <<tables, serial, sess>>

\* As UpdateUserValues, but stamping the row as create does.
UpdateUserValuesStamped(body) == NonNull(body) @@ [registered_at |-> Some(0)]

\* The columns update_user writes.
UpdateUserValues(body) == NonNull(body)

update_user(user_id, body) ==
    LET vals == UpdateUserValues(body) IN
    IF EmptySetClause(vals)
    THEN /\ Reply("update_user", user_id, body, StatusServerError, Detail("ProgrammingError"))
         /\ UNCHANGED <<tables, serial, sess>>
    ELSE IF user_id \notin DOMAIN users
    THEN /\ Reply("update_user", user_id, body, StatusNotFound, Detail("User not found"))
         /\ UNCHANGED <<tables, serial, sess>>
    ELSE IF "role_id" \in DOMAIN vals /\ ~FkHolds(vals.role_id, roles)
    THEN /\ Reply("update_user", user_id, body, StatusServerError, Detail("IntegrityError"))
         /\ UNCHANGED <<tables, serial, sess>>
    ELSE /\ users' = [users EXCEPT ![user_id] = UpdateRow(@, vals)]
         /\ Reply("update_user", user_id, body, StatusOK, Project(users'[user_id], UserCols))
         /\ UNCHANGED <<roles, artists, albums, songs, serial, sess>>

\* ---------------------------------------------------------------- artists
ArtistCols == {"id", "name", "genre", "country"}

\* class ArtistCreate: name is required, genre and country default to None.
ArtistCreateValid(body) == body.name # None
ArtistCreateModel(body) ==
    [name |-> body.name, genre |-> body.genre, country |-> body.country]

create_artist(body) ==
    /\ serial.artists <= MaxId
    /\ IF ~ArtistCreateValid(body)
       THEN /\ Reply("create_artist", 0, body, StatusUnprocessable, Detail("validation"))
            /\ UNCHANGED <<tables, serial, sess>>
       ELSE LET artist == ArtistCreateModel(body)
                id == serial.artists
            IN  /\ artists' = InsertRow(artists, id,
                                  [name |-> artist.name, genre |-> artist.genre,
                                   country |-> artist.country])
                /\ serial' = NextSerial("artists")
                /\ Reply("create_artist", 0, body, StatusOK, Project(artists'[id], ArtistCols))
                /\ UNCHANGED <<roles, users, albums, songs, sess>>

get_artists(limit, offset) ==
    /\ \E scan \in ScanOrders(artists) :
          Reply("get_artists", 0, [limit |-> limit, offset |-> offset], StatusOK,
                Page(scan, PageArg(limit, DefaultLimit), PageArg(offset, DefaultOffset)))
    /\ UNCHANGED <<tables, serial, sess>>

get_artist(artist_id) ==
    /\ IF artist_id \in DOMAIN artists
       THEN Reply("get_artist", artist_id, None, StatusOK, artists[artist_id])
       ELSE Reply("get_artist", artist_id, None, StatusNotFound, Detail("Artist not found"))
    /\ UNCHANGED <<tables, serial, sess>>

\* albums.artist_id and songs.artist_id reference artists.id, with no
\* ON DELETE rule: a referenced artist cannot be deleted.
Referenced(artist_id) ==
    \/ \E k \in DOMAIN albums : albums[k].artist_id = Some(artist_id)
    \/ \E k \in DOMAIN songs : songs[k].artist_id = Some(artist_id)

\* delete_artist, in the steps two requests can interleave at.  The store
\* runs the DELETE and its commit as one step: a second DELETE of the row
\* waits for the first one's commit and then finds no row.
Workers == {1, 2}
Idle == [pc |-> "idle", id |-> 0, present |-> FALSE, rowcount |-> 0, status |-> 0]

\* The request arrives.  present records, for the properties only, whether
\* the row was in the table at that moment.
delete_artist_begin(w, artist_id) ==
    /\ sess[w].pc \in {"idle", "done"}
    /\ sess' = [sess EXCEPT ![w] = [pc |-> "received", id |-> artist_id,
                                    present |-> artist_id \in DOMAIN artists,
                                    rowcount |-> 0, status |-> 0]]
    /\ Reply("delete_artist", artist_id, w, 0, None)
    /\ UNCHANGED <<tables, serial>>

\* result.rowcount of the DELETE.
RowCount(table, id) == IF id \in DOMAIN table THEN 1 ELSE 0

\* db.execute(stmt); db.commit()
delete_artist_execute(w) ==
    /\ sess[w].pc = "received"
    /\ LET id == sess[w].id IN
       IF id \in DOMAIN artists /\ Referenced(id)
       THEN /\ sess' = [sess EXCEPT ![w].pc = "done", ![w].status = StatusServerError]
            /\ Reply("delete_artist", id, w, StatusServerError, Detail("IntegrityError"))
            /\ UNCHANGED <<tables, serial>>
       ELSE /\ artists' = DeleteRow(artists, id)
            /\ sess' = [sess EXCEPT ![w].pc = "committed",
                                    ![w].rowcount = RowCount(artists, id)]
            /\ Reply("delete_artist", id, w, 0, None)
            /\ UNCHANGED <<roles, users, albums, songs, serial>>

\* if result.rowcount == 0: raise HTTPException(404)
DeleteStatus(rowcount) == IF rowcount = 0 THEN StatusNotFound ELSE StatusOK

delete_artist_respond(w) ==
    /\ sess[w].pc = "committed"
    /\ LET status == DeleteStatus(sess[w].rowcount) IN
       /\ sess' = [sess EXCEPT ![w].pc = "done", ![w].status = status]
       /\ Reply("delete_artist", sess[w].id, w, status,
                IF status = StatusOK THEN [message |-> "Artist deleted successfully"]
                                     ELSE Detail("Artist not found"))
    /\ UNCHANGED <<tables, serial>>

\* The columns the handler of line 312 writes.
UpdateArtistValues(body) == NonNull(body)

\* update_artist as defined at line 312 (body: ArtistUpdate).
update_artist(artist_id, body) ==
    LET vals == UpdateArtistValues(body) IN
    IF EmptySetClause(vals)
    THEN /\ Reply("update_artist", artist_id, body, StatusServerError, Detail("ProgrammingError"))
         /\ UNCHANGED <<tables, serial, sess>>
    ELSE IF artist_id \notin DOMAIN artists
    THEN /\ Reply("update_artist", artist_id, body, StatusNotFound, Detail("Artist not found"))
         /\ UNCHANGED <<tables, serial, sess>>
    ELSE /\ artists' = [artists EXCEPT ![artist_id] = UpdateRow(@, vals)]
         /\ Reply("update_artist", artist_id, body, StatusOK,
                  Project(artists'[artist_id], ArtistCols))
         /\ UNCHANGED <<roles, users, albums, songs, serial, sess>>

\* update_artist as defined again at line 344 (body: ArtistCreate).
update_artist_full(artist_id, body) ==
    IF ~ArtistCreateValid(body)
    THEN /\ Reply("update_artist_full", artist_id, body, StatusUnprocessable, Detail("validation"))
         /\ UNCHANGED <<tables, serial, sess>>
    ELSE IF artist_id \notin DOMAIN artists
    THEN /\ Reply("update_artist_full", artist_id, body, StatusNotFound, Detail("Artist not found"))
         /\ UNCHANGED <<tables, serial, sess>>
    ELSE LET artist == ArtistCreateModel(body) IN
         /\ artists' = [artists EXCEPT ![artist_id] =
                            UpdateRow(@, [name |-> artist.name, genre |-> artist.genre,
                                          country |-> artist.country])]
         /\ Reply("update_artist_full", artist_id, body, StatusOK,
                  Project(artists'[artist_id], ArtistCols))
         /\ UNCHANGED <<roles, users, albums, songs, serial, sess>>

\* The handlers registered for PUT /artists/{artist_id}, in the order the
\* decorators run.
PutArtistRoutes == <<"update_artist", "update_artist_full">>

\* As RouteMatch, but a later registration replacing an earlier one.
RouteMatchLast(routes) == routes[Len(routes)]

\* The router serves a request by the first route that matches it.
RouteMatch(routes) == routes[1]

put_artist(artist_id, body) ==
    IF RouteMatch(PutArtistRoutes) = "update_artist"
    THEN update_artist(artist_id, body)
    ELSE update_artist_full(artist_id, body)

\* ----------------------------------------------------------------- albums
AlbumCols == {"id", "title", "release_date", "artist_id"}

\* class AlbumCreate: all three fields are required.
AlbumCreateValid(body) ==
    body.title # None /\ body.release_date # None /\ body.artist_id # None

create_album(body) ==
    /\ serial.albums <= MaxId
    /\ IF ~AlbumCreateValid(body)
       THEN /\ Reply("create_album", 0, body, StatusUnprocessable, Detail("validation"))
            /\ UNCHANGED <<tables, serial, sess>>
       ELSE IF ~FkHolds(body.artist_id, artists)
       THEN /\ serial' = NextSerial("albums")
            /\ Reply("create_album", 0, body, StatusServerError, Detail("IntegrityError"))
            /\ UNCHANGED <<tables, sess>>
       ELSE LET id == serial.albums IN
            /\ albums' = InsertRow(albums, id,
                             [title |-> body.title, release_date |-> body.release_date,
                              artist_id |-> body.artist_id])
            /\ serial' = NextSerial("albums")
            /\ Reply("create_album", 0, body, StatusOK, Project(albums'[id], AlbumCols))
            /\ UNCHANGED <<roles, users, artists, songs, sess>>

get_album(album_id) ==
    /\ IF album_id \in DOMAIN albums
       THEN Reply("get_album", album_id, None, StatusOK, albums[album_id])
       ELSE Reply("get_album", album_id, None, StatusNotFound, Detail("Album not found"))
    /\ UNCHANGED <<tables, serial, sess>>

\* ------------------------------------------------------------------ songs
SongCols == {"id", "title", "duration", "album_id", "artist_id"}

\* class SongCreate: all four fields are required.
SongCreateValid(body) ==
    /\ body.title # None /\ body.duration # None
    /\ body.album_id # None /\ body.artist_id # None

create_song(body) ==
    /\ serial.songs <= MaxId
    /\ IF ~SongCreateValid(body)
       THEN /\ Reply("create_song", 0, body, StatusUnprocessable, Detail("validation"))
            /\ UNCHANGED <<tables, serial, sess>>
       ELSE IF ~(FkHolds(body.album_id, albums) /\ FkHolds(body.artist_id, artists))
       THEN /\ serial' = NextSerial("songs")
            /\ Reply("create_song", 0, body, StatusServerError, Detail("IntegrityError"))
            /\ UNCHANGED <<tables, sess>>
       ELSE LET id == serial.songs IN
            /\ songs' = InsertRow(songs, id,
                            [title |-> body.title, duration |-> body.duration,
                             album_id |-> body.album_id, artist_id |-> body.artist_id])
            /\ serial' = NextSerial("songs")
            /\ Reply("create_song", 0, body, StatusOK, Project(songs'[id], SongCols))
            /\ UNCHANGED <<roles, users, artists, albums, sess>>

get_song(song_id) ==
    /\ IF song_id \in DOMAIN songs
       THEN Reply("get_song", song_id, None, StatusOK, songs[song_id])
       ELSE Reply("get_song", song_id, None, StatusNotFound, Detail("Song not found"))
    /\ UNCHANGED <<tables, serial, sess>>

\* ------------------------------------------------------------------- Init
Init ==
    /\ roles = <<>> /\ users = <<>> /\ artists = <<>> /\ albums = <<>> /\ songs = <<>>
    /\ serial = [k \in Kinds |-> 1]
    /\ req = [op |-> "none", id |-> 0, body |-> None]
    /\ resp = [status |-> 0, body |-> None]
    /\ sess = [w \in Workers |-> Idle]

\* ----------------------------------------------------------------- inputs
RoleNames == {"admin", "root"}
Permissions == {"{}", "{rw}"}
Passwords == {"pw1"}
Times == {1, 2}
ArtistNames == {"Abba", "Blur"}
Genres == {"pop"}
Countries == {"SE"}

RoleBodies == [name : Opt(RoleNames), permissions : Opt(Permissions)]
RoleBodiesFew == [name : {Some("admin")}, permissions : {None}]
RoleUpdatesFew == [name : {Some("root")}, permissions : {None}]

RegisterBodies ==
    { [email |-> Some(who[1]), username |-> Some(who[2]),
       password |-> Some(pw), role_id |-> Some(r)] :
        who \in {<<"a@x", "ann">>, <<"b@x", "bob">>}, pw \in Passwords, r \in 1..2 }

UserCreateBodies ==
    [email : Opt({"a@x"}), username : {Some("ann")}, role_id : {Some(1)},
     hashed_password : Opt(Passwords), password : {Some("pw1")},
     is_active : {None}, is_superuser : {None}, is_verified : {None}]

UserUpdateBodies ==
    [email : Opt({"b@x"}), username : {None}, role_id : Opt({2}),
     hashed_password : Opt(Passwords), is_active : Opt({FALSE}),
     is_superuser : {None}, is_verified : {None}]
UserUpdatesFew ==
    [email : Opt({"b@x"}), username : {None}, role_id : {None},
     hashed_password : {None}, is_active : Opt({FALSE}),
     is_superuser : {None}, is_verified : {None}]

ArtistBodies == [name : Opt(ArtistNames), genre : Opt(Genres), country : Opt(Countries)]
ArtistBodiesFew == [name : {Some("Abba")}, genre : {None}, country : {None}]
ArtistUpdatesFew == [name : {Some("Blur")}, genre : {None}, country : {None}]

AlbumBodies ==
    [title : {Some("Arrival")}, release_date : {Some(1976)}, artist_id : Opt(Ids)]
AlbumBodiesFew ==
    [title : {Some("Arrival")}, release_date : {Some(1976)}, artist_id : {Some(1)}]

SongBodies ==
    [title : {Some("Tiger")}, duration : Opt({175}), album_id : {Some(i) : i \in Ids},
     artist_id : {Some(1)}]
SongBodiesFew ==
    [title : {Some("Tiger")}, duration : {Some(175)}, album_id : {Some(1)},
     artist_id : {Some(1)}]

PageArgs == Opt(0..MaxPage)

\* --------------------------------------------------------- specifications
\* The role endpoints.
NextRoles ==
    \/ \E body \in RoleBodies : create_role(body)
    \/ get_roles
    \/ \E id \in Ids : get_role(id)
    \/ \E id \in Ids, body \in RoleBodies : update_role(id, body)

SpecRoles == Init /\ [][NextRoles]_vars

\* The user endpoints, over roles created by POST /roles/.
NextUsers ==
    \/ \E body \in RoleBodiesFew : create_role(body)
    \/ \E body \in RegisterBodies : register(body, 1)
    \/ \E body \in UserCreateBodies : create_user(body, 1)
    \/ \E limit, offset \in PageArgs : get_users(limit, offset)
    \/ \E id \in Ids : get_user(id)
    \/ \E id \in Ids, body \in UserUpdateBodies : update_user(id, body)

SpecUsers == Init /\ [][NextUsers]_vars

\* The artist endpoints but DELETE.
NextArtists ==
    \/ \E body \in ArtistBodies : create_artist(body)
    \/ \E limit, offset \in PageArgs : get_artists(limit, offset)
    \/ \E id \in Ids : get_artist(id)
    \/ \E id \in Ids, body \in ArtistBodies : put_artist(id, body)

SpecArtists == Init /\ [][NextArtists]_vars

\* Albums and songs over artists, one DELETE at a time.
NextCatalog ==
    \/ \E body \in ArtistBodiesFew : create_artist(body)
    \/ \E body \in AlbumBodies : create_album(body)
    \/ \E id \in Ids : get_album(id)
    \/ \E body \in SongBodies : create_song(body)
    \/ \E id \in Ids : get_song(id)
    \/ \E id \in Ids : delete_artist_begin(1, id)
    \/ delete_artist_execute(1)
    \/ delete_artist_respond(1)

SpecCatalog == Init /\ [][NextCatalog]_vars

\* DELETE requests of two workers, over artists some of which have an album.
NextDelete ==
    \/ \E body \in ArtistBodiesFew : create_artist(body)
    \/ \E body \in AlbumBodiesFew : create_album(body)
    \/ \E w \in Workers, id \in Ids : delete_artist_begin(w, id)
    \/ \E w \in Workers : delete_artist_execute(w)
    \/ \E w \in Workers : delete_artist_respond(w)

SpecDelete == Init /\ [][NextDelete]_vars

\* Every endpoint that writes.  The account tables (roles, users) and the
\* catalog tables (artists, albums, songs) share no row, no foreign key and
\* no handler, so a run here writes to one of the two groups.
AccountsUntouched == roles = <<>> /\ users = <<>> /\ serial.roles = 1 /\ serial.users = 1
CatalogUntouched ==
    /\ artists = <<>> /\ albums = <<>> /\ songs = <<>>
    /\ serial.artists = 1 /\ serial.albums = 1 /\ serial.songs = 1
    /\ \A w \in Workers : sess[w] = Idle

NextStore ==
    \/ CatalogUntouched /\ \E body \in RoleBodiesFew : create_role(body)
    \/ CatalogUntouched /\ \E id \in Ids, body \in RoleUpdatesFew : update_role(id, body)
    \/ CatalogUntouched /\ \E body \in RegisterBodies, now \in Times : register(body, now)
    \/ CatalogUntouched /\ \E id \in Ids, body \in UserUpdatesFew : update_user(id, body)
    \/ AccountsUntouched /\ \E body \in ArtistBodiesFew : create_artist(body)
    \/ AccountsUntouched /\ \E id \in Ids, body \in ArtistUpdatesFew : put_artist(id, body)
    \/ AccountsUntouched /\ \E body \in AlbumBodiesFew : create_album(body)
    \/ AccountsUntouched /\ \E body \in SongBodiesFew : create_song(body)
    \/ AccountsUntouched /\ \E id \in Ids : delete_artist_begin(1, id)
    \/ AccountsUntouched /\ delete_artist_execute(1)
    \/ AccountsUntouched /\ delete_artist_respond(1)

SpecStore == Init /\ [][NextStore]_vars

\* Every endpoint, every input.
Next ==
    \/ NextRoles \/ NextUsers \/ NextArtists \/ NextCatalog \/ NextDelete

Spec == Init /\ [][Next]_vars

\* ================================================================= claims
\* What the properties read off a step: the table an operation works on,
\* the operations that are an Update, a Get, a Create.
UpdateOps == {"update_role", "update_user", "update_artist", "update_artist_full"}
GetOps == {"get_role", "get_user", "get_artist", "get_album", "get_song"}
CreateOps == {"create_role", "create_user", "create_artist", "create_album", "create_song"}

TableOf(op) ==
    CASE op \in {"create_role", "get_role", "update_role"} -> roles
      [] op \in {"create_user", "get_user", "update_user"} -> users
      [] op \in {"create_artist", "get_artist", "update_artist", "update_artist_full"} -> artists
      [] op \in {"create_album", "get_album"} -> albums
      [] op \in {"create_song", "get_song"} -> songs

TableOfNext(op) ==
    CASE op \in {"create_role", "get_role", "update_role"} -> roles'
      [] op \in {"create_user", "get_user", "update_user"} -> users'
      [] op \in {"create_artist", "get_artist", "update_artist", "update_artist_full"} -> artists'
      [] op \in {"create_album", "get_album"} -> albums'
      [] op \in {"create_song", "get_song"} -> songs'

\* The row with the fields that are present and non-null in the body
\* overwritten, every other field as it was.
Merged(row, body) ==
    [c \in DOMAIN row |-> IF c \in DOMAIN body /\ body[c] # None THEN body[c] ELSE row[c]]

SetsNoField(body) == \A c \in DOMAIN body : body[c] = None

\* C1: an Update of an existing id that answers 200 leaves the record equal to the prior
\* record with exactly the fields present and non-null in the payload
\* overwritten; a field the payload leaves out keeps its value.
C1_UpdateOverwritesOnlySentFields ==
    [][ (req'.op \in UpdateOps /\ req'.id \in DOMAIN TableOf(req'.op)
            /\ resp'.status = 200)
        => /\ req'.id \in DOMAIN TableOfNext(req'.op)
           /\ TableOfNext(req'.op)[req'.id] = Merged(TableOf(req'.op)[req'.id], req'.body) ]_vars

\* C2: an Update of an existing id whose payload sets no field answers 200
\* with the current record and changes nothing in the store.
C2_EmptyUpdateSucceeds ==
    [][ (req'.op \in UpdateOps /\ req'.id \in DOMAIN TableOf(req'.op)
            /\ SetsNoField(req'.body))
        => /\ resp'.status = 200
           /\ resp'.body = Project(TableOf(req'.op)[req'.id], DOMAIN resp'.body)
           /\ UNCHANGED tables ]_vars

\* C3: a Get or an Update (with any payload, an empty one included) of an
\* id the table does not hold answers 404 and leaves the store unchanged;
\* so does a Delete, once it has run, of an id absent when it arrived.
C3_AbsentIdIsNotFound ==
    [][ /\ (req'.op \in GetOps \cup UpdateOps /\ req'.id \notin DOMAIN TableOf(req'.op))
            => (resp'.status = 404 /\ UNCHANGED tables)
        /\ \A w \in Workers :
            (sess[w].pc = "received" /\ sess'[w].pc # "received"
                /\ sess[w].id \notin DOMAIN artists)
            => (UNCHANGED tables /\ sess'[w].rowcount = 0)
        /\ \A w \in Workers :
            (sess'[w].pc = "done" /\ sess[w].pc = "committed" /\ sess[w].rowcount = 0)
            => sess'[w].status = 404 ]_vars

\* C4: of two Delete requests for the same Artist id that both arrived while
\* the row was there, exactly one answers with the confirmation and the
\* other with 404; no Delete ends in anything but one of those two.
C4_TwoDeletesOneSucceeds ==
    /\ \A w \in Workers : sess[w].pc = "done" => sess[w].status \in {200, 404}
    /\ \A w, v \in Workers :
        (w # v /\ sess[w].pc = "done" /\ sess[v].pc = "done"
             /\ sess[w].id = sess[v].id /\ sess[w].present /\ sess[v].present)
        => {sess[w].status, sess[v].status} = {200, 404}

\* A Create payload is valid: its required fields are there and its foreign
\* keys name rows that exist.
ValidCreate(op, body) ==
    CASE op = "create_role" -> RoleCreateValid(body)
      [] op = "create_user" -> UserCreateValid(body) /\ FkHolds(body.role_id, roles)
      [] op = "create_artist" -> ArtistCreateValid(body)
      [] op = "create_album" -> AlbumCreateValid(body) /\ FkHolds(body.artist_id, artists)
      [] op = "create_song" ->
            /\ SongCreateValid(body)
            /\ FkHolds(body.album_id, albums) /\ FkHolds(body.artist_id, artists)

\* The fields of a Create payload the client supplied and the table stores.
Supplied(op, body) ==
    {c \in DOMAIN body : body[c] # None} \ {"password", "hashed_password"}

\* C5: a Create with a valid payload answers with a record that has a
\* generated id, and the record then stored under that id (what Get
\* returns) has each user-supplied field as the payload gave it.
C5_GetAfterCreate ==
    [][ (req'.op \in CreateOps /\ ValidCreate(req'.op, req'.body))
        => /\ resp'.status = 200
           /\ resp'.body.id \in DOMAIN TableOfNext(req'.op)
           /\ resp'.body.id \notin DOMAIN TableOf(req'.op)
           /\ \A c \in Supplied(req'.op, req'.body) :
                TableOfNext(req'.op)[resp'.body.id][c] = req'.body[c] ]_vars

IdsDistinct(table) ==
    \A j, k \in DOMAIN table : j # k => table[j].id # table[k].id

\* Every row that is in the table before and after the step has the id
\* (and each of the columns cols) it had.
RowsKeep(before, after, cols) ==
    \A k \in DOMAIN before \cap DOMAIN after :
        \A c \in cols : after[k][c] = before[k][c]

\* C6: within each kind no two records share an id; no step changes the id
\* of a record, and a row leaves its table only by a Delete of its own id;
\* a user's registered_at never changes after creation.
C6_IdsUniqueAndImmutable ==
    [][ /\ IdsDistinct(roles') /\ IdsDistinct(users') /\ IdsDistinct(artists')
        /\ IdsDistinct(albums') /\ IdsDistinct(songs')
        /\ RowsKeep(roles, roles', {"id"})
        /\ RowsKeep(users, users', {"id", "registered_at"})
        /\ RowsKeep(artists, artists', {"id"})
        /\ RowsKeep(albums, albums', {"id"})
        /\ RowsKeep(songs, songs', {"id"})
        /\ DOMAIN roles \subseteq DOMAIN roles' /\ DOMAIN users \subseteq DOMAIN users'
        /\ DOMAIN albums \subseteq DOMAIN albums' /\ DOMAIN songs \subseteq DOMAIN songs'
        /\ \A k \in DOMAIN artists \ DOMAIN artists' :
                req'.op = "delete_artist" /\ req'.id = artists[k].id ]_vars

\* Two users are registered and an Update of one of them has succeeded.
C6_Witness ==
    /\ req.op = "update_user" /\ resp.status = 200
    /\ Cardinality(DOMAIN users) = 2
    /\ \A k \in DOMAIN users : users[k].id = k /\ users[k].registered_at # None

FksHold ==
    /\ \A k \in DOMAIN users : FkHolds(users[k].role_id, roles)
    /\ \A k \in DOMAIN albums : FkHolds(albums[k].artist_id, artists)
    /\ \A k \in DOMAIN songs :
            FkHolds(songs[k].album_id, albums) /\ FkHolds(songs[k].artist_id, artists)

\* The request writes a foreign key that names no row of the target table.
DanglingWrite(op, id, body) ==
    CASE op = "create_user" -> UserCreateValid(body) /\ ~FkHolds(body.role_id, roles)
      [] op = "create_album" -> AlbumCreateValid(body) /\ ~FkHolds(body.artist_id, artists)
      [] op = "create_song" ->
            /\ SongCreateValid(body)
            /\ ~(FkHolds(body.album_id, albums) /\ FkHolds(body.artist_id, artists))
      [] op = "update_user" -> id \in DOMAIN users /\ ~FkHolds(body.role_id, roles)
      [] OTHER -> FALSE

\* C7: a Create (User, Album, Song) or an Update (User) whose foreign key
\* names no row of the target kind ends with status 400 and leaves the
\* store unchanged; every foreign key stored names an existing row.
C7_DanglingKeyIsClientError ==
    [][ /\ DanglingWrite(req'.op, req'.id, req'.body)
            => (resp'.status = 400 /\ UNCHANGED tables)
        /\ FksHold' ]_vars

\* The rows of a table in ascending order of primary key.
Ascending(table) ==
    CHOOSE scan \in ScanOrders(table) :
        \A i, j \in 1..Len(scan) : i < j => scan[i].id < scan[j].id

\* C8: a List returns the kind's records in ascending primary-key order,
\* the first offset ones skipped and at most limit returned (10 and 0 when
\* the request names none), so that the same request gets the same answer.
C8_ListIsAscendingPage ==
    /\ req.op = "get_artists" =>
        resp.body = Page(Ascending(artists), PageArg(req.body.limit, 10),
                         PageArg(req.body.offset, 0))
    /\ req.op = "get_users" =>
        resp.body = Page([i \in 1..Cardinality(DOMAIN users) |->
                              Project(Ascending(users)[i], UserCols)],
                         PageArg(req.body.limit, 10), PageArg(req.body.offset, 0))

\* C9: no stored hashed_password is a password string a client sent.
C9_NoPlaintextStored ==
    \A k \in DOMAIN users : users[k].hashed_password \notin {Some(p) : p \in Passwords}

\* C10: every PUT /artists/{id} is served by the handler registered first,
\* the one that merges; the one registered second serves none, so an update
\* that leaves out genre or country leaves that column as it was.
C10_PutArtistMerges ==
    [][ req'.op \in {"update_artist", "update_artist_full"}
        => /\ req'.op = "update_artist"
           /\ req'.id \in DOMAIN artists =>
                /\ req'.id \in DOMAIN artists'
                /\ req'.body.genre = None
                      => artists'[req'.id].genre = artists[req'.id].genre
                /\ req'.body.country = None
                      => artists'[req'.id].country = artists[req'.id].country ]_vars

\* An update that names no genre has succeeded on an artist that has one.
C10_Witness ==
    /\ req.op = "update_artist" /\ resp.status = 200
    /\ req.body.genre = None /\ req.body.name # None
    /\ req.id \in DOMAIN artists
    /\ artists[req.id].genre # None /\ artists[req.id].name = req.body.name

====
